---- MODULE Spec2Model ----
(***************************************************************************)
(* Model of _BAConsoleRedirect (bootstrap.py): the console redirect that   *)
(* echoes every write, accumulates the written fragments under a lock and  *)
(* ships them to _ba.log, either on the writing thread (newline-terminated *)
(* write) or through a call pushed to the game thread (_ba.pushcall).      *)
(* Strings are sequences of characters.                                    *)
(***************************************************************************)
EXTENDS Integers, Sequences, FiniteSets, TLC

\* ---- bounds ----
MaxWrites == 2
MaxWritesD == 1
MaxDeleg == 2

\* ---- universe ----
NL == "\n"
Chars == {"a", NL}
\* the arguments of write: the empty string, a partial line, a line end, a line
\* (print('a') issues write('a') and then write('\n'))
Texts == {<<>>, <<"a">>, <<NL>>, <<"a", NL>>}

GameThread == "game"
Threads == {"game", "t1", "t2"}
Inst == {"stdout", "stderr"}
Free == "free"

VARIABLES
  linebits,   \* self._linebits of each instance
  lock,       \* self._lock of each instance: Free or the holding thread
  tty,        \* what self._original.isatty() answers, per instance
  flushed,    \* number of flush() calls the original stream has received
  queue,      \* calls pushed with _ba.pushcall, not yet run
  log,        \* calls of _ba.log, in the order they were made
  pc,         \* position of each thread
  op,         \* the top-level call a thread is in
  self,       \* the instance a thread's call is on
  sval,       \* argument of the current write
  line,       \* local variable line of _shiplog
  frags,      \* the fragments the current _shiplog read from _linebits
  echo,       \* calls of self._call made by the current write
  ships,      \* _shiplog calls made by the current write
  pushes,     \* _ba.pushcall calls made by the current write
  shipres,    \* outcome of the current _shiplog
  ret,        \* return value of the current call
  appended,   \* every fragment appended to an instance, in append order
  acquired,   \* sval of every write that entered the lock, in entering order
  drains,     \* the fragment lists taken by _shiplog, in taking order
  dn,         \* which of these takes the current _shiplog made
  wleft,      \* number of write calls still to be made
  dleft       \* number of flush / isatty calls still to be made

vars == <<linebits, lock, tty, flushed, queue, log, pc, op, self, sval, line,
          frags, echo, ships, pushes, shipres, ret, appended, acquired,
          drains, dn, wleft, dleft>>

locals == <<op, self, sval, line, frags, dn, echo, ships, pushes, shipres,
            ret>>
shared == <<linebits, lock, queue, log, appended, acquired, drains>>
streams == <<tty, flushed>>

\* ---- pure helpers ----

\* str.endswith('\n')
EndsWithNL(s) == Len(s) > 0 /\ s[Len(s)] = NL

\* ''.join(bits)
RECURSIVE Join(_)
Join(bits) == IF bits = <<>> THEN <<>> ELSE Head(bits) \o Join(Tail(bits))

\* if line.endswith('\n'): line = line[:-1]
\* (variant: the newline is left in place)
StripNewline_keep(s) == s
StripNewline(s) == IF EndsWithNL(s) THEN SubSeq(s, 1, Len(s) - 1) ELSE s

\* the callback each instance was constructed with
Call(i) == IF i = "stdout" THEN "print_stdout" ELSE "print_stderr"

\* the arguments of _ba.pushcall
PushCall(i) == [call |-> i, from_other_thread |-> TRUE,
                suppress_other_thread_warning |-> TRUE]

\* the arguments of _ba.log
LogArgs(l) == [line |-> l, to_stdout |-> FALSE]

InitLocals ==
  /\ pc = [t \in Threads |-> "idle"]
  /\ op = [t \in Threads |-> "none"]
  /\ self = [t \in Threads |-> "stdout"]
  /\ sval = [t \in Threads |-> <<>>]
  /\ line = [t \in Threads |-> <<>>]
  /\ frags = [t \in Threads |-> <<>>]
  /\ dn = [t \in Threads |-> 0]
  /\ echo = [t \in Threads |-> <<>>]
  /\ ships = [t \in Threads |-> 0]
  /\ pushes = [t \in Threads |-> 0]
  /\ shipres = [t \in Threads |-> "none"]
  /\ ret = [t \in Threads |-> "none"]

\* __init__ of both instances: empty _linebits, fresh lock
InitShared ==
  /\ linebits = [i \in Inst |-> <<>>]
  /\ lock = [i \in Inst |-> Free]
  /\ flushed = [i \in Inst |-> 0]
  /\ queue = <<>>
  /\ log = <<>>
  /\ appended = [i \in Inst |-> <<>>]
  /\ acquired = [i \in Inst |-> <<>>]
  /\ drains = [i \in Inst |-> <<>>]

Init ==
  /\ InitShared
  /\ InitLocals
  /\ tty = [i \in Inst |-> FALSE]
  /\ wleft = MaxWrites
  /\ dleft = 0

InitD ==
  /\ InitShared
  /\ InitLocals
  /\ tty \in [Inst -> BOOLEAN]
  /\ wleft = MaxWritesD
  /\ dleft = MaxDeleg

\* ---- write ----

\* a thread calls instance.write(s); its first statement is self._call(sval)
\* (variant: the callback is not called)
Write_noecho(t, i, s) ==
  /\ pc[t] = "idle"
  /\ wleft > 0
  /\ pc' = [pc EXCEPT ![t] = "w_acq"]
  /\ op' = [op EXCEPT ![t] = "write"]
  /\ self' = [self EXCEPT ![t] = i]
  /\ sval' = [sval EXCEPT ![t] = s]
  /\ wleft' = wleft - 1
  /\ UNCHANGED <<shared, streams, line, frags, dn, echo, ships, pushes,
                 shipres, ret, dleft>>
Write(t, i, s) ==
  /\ pc[t] = "idle"
  /\ wleft > 0
  /\ pc' = [pc EXCEPT ![t] = "w_acq"]
  /\ op' = [op EXCEPT ![t] = "write"]
  /\ self' = [self EXCEPT ![t] = i]
  /\ sval' = [sval EXCEPT ![t] = s]
  /\ echo' = [echo EXCEPT ![t] = Append(@, [cb |-> Call(i), text |-> s])]
  /\ wleft' = wleft - 1
  /\ UNCHANGED <<shared, streams, line, frags, dn, ships, pushes, shipres,
                 ret, dleft>>

\* with self._lock:   (entering)
\* (variant: the lock is entered without waiting for it)
WriteAcquire_nolock(t) ==
  /\ pc[t] = "w_acq"
  /\ lock' = [lock EXCEPT ![self[t]] = t]
  /\ acquired' = [acquired EXCEPT ![self[t]] = Append(@, sval[t])]
  /\ pc' = [pc EXCEPT ![t] = "w_append"]
  /\ UNCHANGED <<linebits, queue, log, appended, drains, streams,
                 locals, wleft, dleft>>
WriteAcquire(t) ==
  /\ pc[t] = "w_acq"
  /\ lock[self[t]] = Free
  /\ lock' = [lock EXCEPT ![self[t]] = t]
  /\ acquired' = [acquired EXCEPT ![self[t]] = Append(@, sval[t])]
  /\ pc' = [pc EXCEPT ![t] = "w_append"]
  /\ UNCHANGED <<linebits, queue, log, appended, drains, streams,
                 locals, wleft, dleft>>

\* self._linebits.append(sval), then the lock is released
WriteAppend(t) ==
  /\ pc[t] = "w_append"
  /\ linebits' = [linebits EXCEPT ![self[t]] = Append(@, sval[t])]
  /\ appended' = [appended EXCEPT ![self[t]] = Append(@, sval[t])]
  /\ lock' = [lock EXCEPT ![self[t]] = Free]
  /\ pc' = [pc EXCEPT ![t] = "w_branch"]
  /\ UNCHANGED <<queue, log, acquired, drains, streams, locals, wleft, dleft>>

\* if sval.endswith('\n'): self._shiplog()  else: _ba.pushcall(self._shiplog, ...)
\* (variant: every write pushes the call)
WriteBranch_push(t) ==
  /\ pc[t] = "w_branch"
  /\ queue' = Append(queue, PushCall(self[t]))
  /\ pushes' = [pushes EXCEPT ![t] = @ + 1]
  /\ pc' = [pc EXCEPT ![t] = "ret"]
  /\ UNCHANGED <<linebits, lock, log, appended, acquired, drains, streams,
                 op, self, sval, line, frags, dn, echo, ships, shipres, ret,
                 wleft, dleft>>
\* (variant: a partial write pushes only when the buffer already held a
\* fragment before its own)
WriteBranch_second(t) ==
  /\ pc[t] = "w_branch"
  /\ IF EndsWithNL(sval[t])
       THEN /\ ships' = [ships EXCEPT ![t] = @ + 1]
            /\ pc' = [pc EXCEPT ![t] = "s_acq"]
            /\ UNCHANGED <<queue, pushes>>
       ELSE /\ IF Len(linebits[self[t]]) >= 2
                 THEN /\ queue' = Append(queue, PushCall(self[t]))
                      /\ pushes' = [pushes EXCEPT ![t] = @ + 1]
                 ELSE UNCHANGED <<queue, pushes>>
            /\ pc' = [pc EXCEPT ![t] = "ret"]
            /\ UNCHANGED ships
  /\ UNCHANGED <<linebits, lock, log, appended, acquired, drains, streams,
                 op, self, sval, line, frags, dn, echo, shipres, ret, wleft,
                 dleft>>
\* (variant: a partial write pushes nothing)
WriteBranch_nopush(t) ==
  /\ pc[t] = "w_branch"
  /\ IF EndsWithNL(sval[t])
       THEN /\ ships' = [ships EXCEPT ![t] = @ + 1]
            /\ pc' = [pc EXCEPT ![t] = "s_acq"]
       ELSE /\ pc' = [pc EXCEPT ![t] = "ret"]
            /\ UNCHANGED ships
  /\ UNCHANGED <<linebits, lock, queue, log, appended, acquired, drains,
                 streams, op, self, sval, line, frags, dn, echo, pushes,
                 shipres, ret, wleft, dleft>>
WriteBranch(t) ==
  /\ pc[t] = "w_branch"
  /\ IF EndsWithNL(sval[t])
       THEN /\ ships' = [ships EXCEPT ![t] = @ + 1]
            /\ pc' = [pc EXCEPT ![t] = "s_acq"]
            /\ UNCHANGED <<queue, pushes>>
       ELSE /\ queue' = Append(queue, PushCall(self[t]))
            /\ pushes' = [pushes EXCEPT ![t] = @ + 1]
            /\ pc' = [pc EXCEPT ![t] = "ret"]
            /\ UNCHANGED ships
  /\ UNCHANGED <<linebits, lock, log, appended, acquired, drains, streams,
                 op, self, sval, line, frags, dn, echo, shipres, ret, wleft,
                 dleft>>

\* ---- the game thread runs a pushed call ----
RunCall(t) ==
  /\ t = GameThread
  /\ pc[t] = "idle"
  /\ queue # <<>>
  /\ queue' = Tail(queue)
  /\ self' = [self EXCEPT ![t] = Head(queue).call]
  /\ op' = [op EXCEPT ![t] = "call"]
  /\ pc' = [pc EXCEPT ![t] = "s_acq"]
  /\ UNCHANGED <<linebits, lock, log, appended, acquired, drains, streams,
                 sval, line, frags, dn, echo, ships, pushes, shipres, ret,
                 wleft, dleft>>

\* ---- _shiplog ----

\* with self._lock:   (entering)
\* (variant: the lock is entered without waiting for it)
ShipAcquire_nolock(t) ==
  /\ pc[t] = "s_acq"
  /\ lock' = [lock EXCEPT ![self[t]] = t]
  /\ pc' = [pc EXCEPT ![t] = "s_drain"]
  /\ UNCHANGED <<linebits, queue, log, appended, acquired, drains, streams,
                 locals, wleft, dleft>>
ShipAcquire(t) ==
  /\ pc[t] = "s_acq"
  /\ lock[self[t]] = Free
  /\ lock' = [lock EXCEPT ![self[t]] = t]
  /\ pc' = [pc EXCEPT ![t] = "s_drain"]
  /\ UNCHANGED <<linebits, queue, log, appended, acquired, drains, streams,
                 locals, wleft, dleft>>

\* line = ''.join(self._linebits); if not line: return; self._linebits = []
\* and the lock is released on either path
\* (variant: no test for an empty line)
ShipDrain_nocheck(t) ==
  /\ pc[t] = "s_drain"
  /\ line' = [line EXCEPT ![t] = Join(linebits[self[t]])]
  /\ frags' = [frags EXCEPT ![t] = linebits[self[t]]]
  /\ drains' = [drains EXCEPT ![self[t]] = Append(@, linebits[self[t]])]
  /\ dn' = [dn EXCEPT ![t] = Len(drains[self[t]]) + 1]
  /\ linebits' = [linebits EXCEPT ![self[t]] = <<>>]
  /\ shipres' = [shipres EXCEPT ![t] = "taken"]
  /\ pc' = [pc EXCEPT ![t] = "s_log"]
  /\ lock' = [lock EXCEPT ![self[t]] = Free]
  /\ UNCHANGED <<queue, log, appended, acquired, streams, op, self,
                 sval, echo, ships, pushes, ret, wleft, dleft>>
\* (variant: the lock is kept while the line is logged)
ShipDrain_held(t) ==
  /\ pc[t] = "s_drain"
  /\ IF Join(linebits[self[t]]) = <<>>
       THEN /\ shipres' = [shipres EXCEPT ![t] = "noop"]
            /\ pc' = [pc EXCEPT ![t] = "ret"]
            /\ lock' = [lock EXCEPT ![self[t]] = Free]
            /\ UNCHANGED <<line, frags, dn, linebits, drains>>
       ELSE /\ line' = [line EXCEPT ![t] = Join(linebits[self[t]])]
            /\ frags' = [frags EXCEPT ![t] = linebits[self[t]]]
            /\ drains' = [drains EXCEPT ![self[t]] = Append(@, linebits[self[t]])]
            /\ dn' = [dn EXCEPT ![t] = Len(drains[self[t]]) + 1]
            /\ linebits' = [linebits EXCEPT ![self[t]] = <<>>]
            /\ shipres' = [shipres EXCEPT ![t] = "taken"]
            /\ pc' = [pc EXCEPT ![t] = "s_log"]
            /\ UNCHANGED lock
  /\ UNCHANGED <<queue, log, appended, acquired, streams, op, self,
                 sval, echo, ships, pushes, ret, wleft, dleft>>
\* (variant: the text is taken and the buffer is left as it was)
ShipDrain_keep(t) ==
  /\ pc[t] = "s_drain"
  /\ IF Join(linebits[self[t]]) = <<>>
       THEN /\ shipres' = [shipres EXCEPT ![t] = "noop"]
            /\ pc' = [pc EXCEPT ![t] = "ret"]
            /\ UNCHANGED <<line, frags, dn, linebits, drains>>
       ELSE /\ line' = [line EXCEPT ![t] = Join(linebits[self[t]])]
            /\ frags' = [frags EXCEPT ![t] = linebits[self[t]]]
            /\ drains' = [drains EXCEPT ![self[t]] = Append(@, linebits[self[t]])]
            /\ dn' = [dn EXCEPT ![t] = Len(drains[self[t]]) + 1]
            /\ UNCHANGED linebits
            /\ shipres' = [shipres EXCEPT ![t] = "taken"]
            /\ pc' = [pc EXCEPT ![t] = "s_log"]
  /\ lock' = [lock EXCEPT ![self[t]] = Free]
  /\ UNCHANGED <<queue, log, appended, acquired, streams, op, self,
                 sval, echo, ships, pushes, ret, wleft, dleft>>
\* (variant: the early return leaves the lock taken)
ShipDrain_leak(t) ==
  /\ pc[t] = "s_drain"
  /\ IF Join(linebits[self[t]]) = <<>>
       THEN /\ shipres' = [shipres EXCEPT ![t] = "noop"]
            /\ pc' = [pc EXCEPT ![t] = "ret"]
            /\ UNCHANGED <<line, frags, dn, linebits, drains, lock>>
       ELSE /\ line' = [line EXCEPT ![t] = Join(linebits[self[t]])]
            /\ frags' = [frags EXCEPT ![t] = linebits[self[t]]]
            /\ drains' = [drains EXCEPT ![self[t]] = Append(@, linebits[self[t]])]
            /\ dn' = [dn EXCEPT ![t] = Len(drains[self[t]]) + 1]
            /\ linebits' = [linebits EXCEPT ![self[t]] = <<>>]
            /\ shipres' = [shipres EXCEPT ![t] = "taken"]
            /\ pc' = [pc EXCEPT ![t] = "s_log"]
            /\ lock' = [lock EXCEPT ![self[t]] = Free]
  /\ UNCHANGED <<queue, log, appended, acquired, streams, op, self,
                 sval, echo, ships, pushes, ret, wleft, dleft>>
ShipDrain(t) ==
  /\ pc[t] = "s_drain"
  /\ IF Join(linebits[self[t]]) = <<>>
       THEN /\ shipres' = [shipres EXCEPT ![t] = "noop"]
            /\ pc' = [pc EXCEPT ![t] = "ret"]
            /\ UNCHANGED <<line, frags, dn, linebits, drains>>
       ELSE /\ line' = [line EXCEPT ![t] = Join(linebits[self[t]])]
            /\ frags' = [frags EXCEPT ![t] = linebits[self[t]]]
            /\ drains' = [drains EXCEPT ![self[t]] = Append(@, linebits[self[t]])]
            /\ dn' = [dn EXCEPT ![t] = Len(drains[self[t]]) + 1]
            /\ linebits' = [linebits EXCEPT ![self[t]] = <<>>]
            /\ shipres' = [shipres EXCEPT ![t] = "taken"]
            /\ pc' = [pc EXCEPT ![t] = "s_log"]
  /\ lock' = [lock EXCEPT ![self[t]] = Free]
  /\ UNCHANGED <<queue, log, appended, acquired, streams, op, self,
                 sval, echo, ships, pushes, ret, wleft, dleft>>

\* if line.endswith('\n'): line = line[:-1];  _ba.log(line, to_stdout=False)
\* (the call of _ba.log is entered; the thread is inside it at s_inlog)
ShipLog(t) ==
  /\ pc[t] = "s_log"
  /\ line' = [line EXCEPT ![t] = StripNewline(line[t])]
  /\ log' = Append(log, [args |-> LogArgs(StripNewline(line[t])),
                         src |-> self[t], frags |-> frags[t],
                         by |-> op[t], n |-> dn[t]])
  /\ shipres' = [shipres EXCEPT ![t] = "logged"]
  /\ pc' = [pc EXCEPT ![t] = "s_inlog"]
  /\ UNCHANGED <<linebits, lock, queue, appended, acquired, drains, streams,
                 op, self, sval, frags, dn, echo, ships, pushes, ret, wleft,
                 dleft>>

\* ---- flush, isatty ----

\* self._original.flush()
\* (variant: flush also empties the buffer)
Flush_ship(t, i) ==
  /\ pc[t] = "idle"
  /\ dleft > 0
  /\ dleft' = dleft - 1
  /\ flushed' = [flushed EXCEPT ![i] = @ + 1]
  /\ linebits' = [linebits EXCEPT ![i] = <<>>]
  /\ op' = [op EXCEPT ![t] = "flush"]
  /\ self' = [self EXCEPT ![t] = i]
  /\ pc' = [pc EXCEPT ![t] = "ret"]
  /\ UNCHANGED <<lock, queue, log, appended, acquired, drains, tty, sval,
                 line, frags, dn, echo, ships, pushes, shipres, ret, wleft>>
Flush(t, i) ==
  /\ pc[t] = "idle"
  /\ dleft > 0
  /\ dleft' = dleft - 1
  /\ flushed' = [flushed EXCEPT ![i] = @ + 1]
  /\ op' = [op EXCEPT ![t] = "flush"]
  /\ self' = [self EXCEPT ![t] = i]
  /\ pc' = [pc EXCEPT ![t] = "ret"]
  /\ UNCHANGED <<shared, tty, sval, line, frags, dn, echo, ships, pushes,
                 shipres, ret, wleft>>

\* return self._original.isatty()
Isatty(t, i) ==
  /\ pc[t] = "idle"
  /\ dleft > 0
  /\ dleft' = dleft - 1
  /\ ret' = [ret EXCEPT ![t] = tty[i]]
  /\ op' = [op EXCEPT ![t] = "isatty"]
  /\ self' = [self EXCEPT ![t] = i]
  /\ pc' = [pc EXCEPT ![t] = "ret"]
  /\ UNCHANGED <<shared, streams, sval, line, frags, dn, echo, ships, pushes,
                 shipres, wleft>>

\* ---- _ba.log returns if the thread is inside it, and the top-level call
\* ---- returns to its caller
Return(t) ==
  /\ pc[t] \in {"ret", "s_inlog"}
  /\ pc' = [pc EXCEPT ![t] = "idle"]
  /\ op' = [op EXCEPT ![t] = "none"]
  /\ self' = [self EXCEPT ![t] = "stdout"]
  /\ sval' = [sval EXCEPT ![t] = <<>>]
  /\ line' = [line EXCEPT ![t] = <<>>]
  /\ frags' = [frags EXCEPT ![t] = <<>>]
  /\ dn' = [dn EXCEPT ![t] = 0]
  /\ echo' = [echo EXCEPT ![t] = <<>>]
  /\ ships' = [ships EXCEPT ![t] = 0]
  /\ pushes' = [pushes EXCEPT ![t] = 0]
  /\ shipres' = [shipres EXCEPT ![t] = "none"]
  /\ ret' = [ret EXCEPT ![t] = "none"]
  /\ UNCHANGED <<shared, streams, wleft, dleft>>

Next ==
  \/ \E t \in Threads, i \in Inst, s \in Texts : Write(t, i, s)
  \/ \E t \in Threads : WriteAcquire(t)
  \/ \E t \in Threads : WriteAppend(t)
  \/ \E t \in Threads : WriteBranch(t)
  \/ \E t \in Threads : RunCall(t)
  \/ \E t \in Threads : ShipAcquire(t)
  \/ \E t \in Threads : ShipDrain(t)
  \/ \E t \in Threads : ShipLog(t)
  \/ \E t \in Threads : Return(t)

Spec == Init /\ [][Next]_vars

\* the same program, with flush and isatty calls
NextD ==
  \/ Next
  \/ \E t \in Threads, i \in Inst : Flush(t, i)
  \/ \E t \in Threads, i \in Inst : Isatty(t, i)

SpecD == InitD /\ [][NextD]_vars

\* the same program, written to by one thread with texts of several lines:
\* a newline-terminated text of two lines, a partial text that begins with a
\* newline, and a text that ends with two newlines
TextsM == {<<"a", NL, "a", NL>>, <<NL, "a">>, <<"a", NL, NL>>}

Writer == "t1"

NextM ==
  \/ \E i \in Inst, s \in TextsM : Write(Writer, i, s)
  \/ \E t \in Threads : WriteAcquire(t)
  \/ \E t \in Threads : WriteAppend(t)
  \/ \E t \in Threads : WriteBranch(t)
  \/ \E t \in Threads : RunCall(t)
  \/ \E t \in Threads : ShipAcquire(t)
  \/ \E t \in Threads : ShipDrain(t)
  \/ \E t \in Threads : ShipLog(t)
  \/ \E t \in Threads : Return(t)

SpecM == Init /\ [][NextM]_vars

\* Every step a thread takes once its call has started, and the game thread
\* running the calls pushed to it.
Step(t) ==
  \/ WriteAcquire(t) \/ WriteAppend(t) \/ WriteBranch(t)
  \/ RunCall(t)
  \/ ShipAcquire(t) \/ ShipDrain(t) \/ ShipLog(t)
  \/ Return(t)

\* Threads keep being scheduled and the game thread keeps running its pushed
\* calls: while some started call or pushed call can take a step, one does.
\* Only the start of a new write is left to the caller.
SpecLive == Init /\ [][Next]_vars /\ WF_vars(\E t \in Threads : Step(t))

\* ---- vocabulary of the properties ----

\* the records _ba.log received from instance i, in the order received
RecordsOf(i) == SelectSeq(log, LAMBDA r : r.src = i)

\* the texts of these records
LinesOf(i) == [k \in DOMAIN RecordsOf(i) |-> RecordsOf(i)[k].args.line]

\* no call on instance i is in progress and no pushed call for it is waiting
Quiescent(i) ==
  /\ \A t \in Threads : pc[t] = "idle" \/ self[t] # i
  /\ \A k \in DOMAIN queue : queue[k].call # i

\* w1..wn, n >= 1: only the last one ends in a newline
OneLine(ws) ==
  /\ Len(ws) >= 1
  /\ EndsWithNL(ws[Len(ws)])
  /\ \A k \in 1..(Len(ws) - 1) : ~EndsWithNL(ws[k])

\* s without its last character
ButLast(s) == SubSeq(s, 1, Len(s) - 1)

\* number of characters in all the fragments of the records in rs
RECURSIVE TextLen(_)
TextLen(rs) ==
  IF rs = <<>> THEN 0 ELSE Len(Join(Head(rs).frags)) + TextLen(Tail(rs))

\* ---- C1 ----

\* C1 as stated: writes w1..wn to an instance, only wn newline-terminated,
\* give exactly one record, the concatenation without its last newline,
\* whenever the pushed ship calls run.
C1_OneRecordAnySchedule ==
  \A i \in Inst :
    (Quiescent(i) /\ OneLine(appended[i]))
      => LinesOf(i) = << ButLast(Join(appended[i])) >>

\* C1 amended: the same, provided no pushed ship call shipped a record of
\* the instance (none of them drained text before wn's own ship did).
C1_OneRecordNoEarlyCall ==
  \A i \in Inst :
    (/\ Quiescent(i)
     /\ OneLine(appended[i])
     /\ \A k \in DOMAIN RecordsOf(i) : RecordsOf(i)[k].by # "call")
      => LinesOf(i) = << ButLast(Join(appended[i])) >>

C1_Witness ==
  \E i \in Inst :
    /\ Quiescent(i)
    /\ OneLine(appended[i])
    /\ Len(appended[i]) >= 2
    /\ Len(Join(appended[i])) >= 2
    /\ \A k \in DOMAIN RecordsOf(i) : RecordsOf(i)[k].by # "call"
    /\ LinesOf(i) = << ButLast(Join(appended[i])) >>

\* ---- C2 ----

\* C2 as stated: N threads, one newline-terminated write each to the same
\* instance, give exactly N records, none holding two writes.  (The writes
\* of one thread never overlap, so a violation has writes of distinct threads.)
C2_OneRecordPerWrite ==
  \A i \in Inst :
    (/\ Quiescent(i)
     /\ \A k \in DOMAIN appended[i] : EndsWithNL(appended[i][k]))
      => /\ Len(RecordsOf(i)) = Len(appended[i])
         /\ \A k \in DOMAIN RecordsOf(i) : Len(RecordsOf(i)[k].frags) = 1

\* ---- C3 ----

\* C3: a write has called the instance's callback exactly once, with sval
\* itself, by the time it goes on to take the lock, whoever holds the lock
\* then; it stays at one call until the write returns.
C3_EchoOnceFirst ==
  \A t \in Threads :
    op[t] = "write" =>
      echo[t] = << [cb |-> IF self[t] = "stdout" THEN "print_stdout"
                                                 ELSE "print_stderr",
                    text |-> sval[t]] >>

C3_Witness ==
  \E t, u \in Threads :
    /\ t # u
    /\ op[t] = "write" /\ pc[t] = "w_acq"
    /\ lock[self[t]] = u
    /\ linebits[self[t]] # <<>>
    /\ log = <<>>
    /\ echo[t] = << [cb |-> "print_stderr", text |-> sval[t]] >>

\* ---- C4 ----

\* C4 as stated: what _ba.log receives tells the instance a record came
\* from, so records of different instances never arrive with equal arguments.
C4_TagTellsInstance ==
  \A m, n \in DOMAIN log :
    log[m].src # log[n].src => log[m].args # log[n].args

\* ---- C5 ----

\* C5: a _shiplog that finds _linebits empty returns without logging and
\* leaves buffer, log and call queue as they were.
C5_EmptyShipNoop ==
  [][\A t \in Threads :
       (pc[t] = "s_drain" /\ linebits[self[t]] = <<>> /\ pc'[t] # "s_drain")
         => /\ pc'[t] = "ret"
            /\ UNCHANGED <<linebits, log, queue, appended, acquired, drains>>
            /\ lock'[self[t]] = Free]_vars

C5_Witness ==
  \E t \in Threads :
    /\ op[t] = "call" /\ pc[t] = "ret" /\ shipres[t] = "noop"
    /\ linebits[self[t]] = <<>>
    /\ Len(RecordsOf(self[t])) = 1
    /\ RecordsOf(self[t])[1].by = "write"
    /\ Len(RecordsOf(self[t])[1].frags) = 2

\* ---- C6 ----

C6_AtReturn ==
  \A t \in Threads :
    (op[t] = "write" /\ pc[t] \in {"ret", "s_inlog"}) =>
      IF EndsWithNL(sval[t])
        THEN ships[t] = 1 /\ pushes[t] = 0 /\ shipres[t] \in {"noop", "logged"}
        ELSE ships[t] = 0 /\ pushes[t] = 1 /\ shipres[t] = "none"

C6_AtBranch ==
  \A t \in Threads :
    (pc[t] = "w_branch" /\ pc'[t] # "w_branch") =>
      IF EndsWithNL(sval[t])
        THEN queue' = queue /\ pc'[t] = "s_acq" /\ op'[t] = "write"
        ELSE /\ queue' = Append(queue,
                    [call |-> self[t], from_other_thread |-> TRUE,
                     suppress_other_thread_warning |-> TRUE])
             /\ pc'[t] = "ret"
             /\ UNCHANGED <<linebits, log>>

\* C6: a newline-terminated write runs _shiplog itself before it returns and
\* pushes no call; any other write pushes exactly one call (from_other_thread
\* and suppress_other_thread_warning set), ships nothing itself and leaves
\* the buffer as its append left it.
C6_ShipOrPush == [] C6_AtReturn /\ [][C6_AtBranch]_vars

C6_Witness ==
  /\ Len(queue) = 2
  /\ queue[1] = queue[2]
  /\ \E t \in Threads : op[t] = "write" /\ pc[t] = "ret" /\ pushes[t] = 1
  /\ log = <<>>
  /\ Len(linebits[queue[1].call]) = 2

\* ---- C7 ----

\* C7 as stated: two threads are never both inside _ba.log for records of
\* the same instance.
C7_LogCallsExclusive ==
  \A t, u \in Threads :
    (t # u /\ pc[t] = "s_inlog" /\ pc[u] = "s_inlog") => self[t] # self[u]

\* C7 amended: two threads are never both inside the locked part of the
\* same instance (a drain never overlaps another drain or an append).
C7_DrainsExclusive ==
  \A t, u \in Threads :
    (/\ t # u
     /\ pc[t] = "s_drain"
     /\ pc[u] \in {"s_drain", "w_append"}) => self[t] # self[u]

C7_Witness ==
  \E t, u \in Threads :
    /\ t # u /\ self[t] = self[u]
    /\ pc[t] = "s_drain" /\ pc[u] = "s_inlog"
    /\ linebits[self[t]] # <<>>

\* ---- C8 ----

\* C8: a thread holds an instance's lock only while it is at the append of
\* write or at the read-and-clear of _shiplog on that instance, so never
\* during self._call, _ba.pushcall or _ba.log.
C8_LockOnlyAroundBuffer ==
  \A i \in Inst :
    lock[i] # Free =>
      /\ self[lock[i]] = i
      /\ pc[lock[i]] \in {"w_append", "s_drain"}

C8_Witness ==
  \E t, u \in Threads :
    /\ t # u /\ self[t] = self[u]
    /\ pc[t] = "s_inlog"
    /\ lock[self[t]] = u
    /\ pc[u] = "w_append"

\* ---- C9 ----

\* C9: a flush or isatty call only reaches the original stream: flush is
\* passed on to it once, isatty returns its answer, and buffer, log, call
\* queue and lock stay as they were.
C9_Delegation ==
  [][\A t \in Threads :
       (pc[t] = "idle" /\ op'[t] \in {"flush", "isatty"})
         => /\ UNCHANGED <<linebits, log, queue, lock, appended, tty>>
            /\ IF op'[t] = "flush"
                 THEN /\ flushed' = [flushed EXCEPT ![self'[t]] = @ + 1]
                      /\ ret'[t] = "none"
                 ELSE /\ flushed' = flushed
                      /\ ret'[t] = tty[self'[t]]]_vars

C9_Witness ==
  \E t, u \in Threads :
    /\ op[t] = "flush" /\ pc[t] = "ret"
    /\ op[u] = "isatty" /\ pc[u] = "ret" /\ ret[u] = TRUE
    /\ self[t] = self[u]
    /\ flushed[self[t]] = 1
    /\ Join(linebits[self[t]]) # <<>>

\* ---- C10 ----

\* every character appended to instance i has gone to _ba.log in a record
Delivered(i) == TextLen(RecordsOf(i)) = Len(Join(appended[i]))

AllQuiet == queue = <<>> /\ \A t \in Threads : pc[t] = "idle"

\* C10: when every started call and every pushed call keeps running, all the
\* text written to an instance ends up in records given to _ba.log, and once
\* no call is in progress or waiting, no text is left in a buffer.
C10_EventuallyShipped ==
  /\ \A i \in Inst : (~Delivered(i)) ~> Delivered(i)
  /\ [](AllQuiet => \A i \in Inst : Join(linebits[i]) = <<>>)

C10_Witness ==
  /\ AllQuiet
  /\ \E i \in Inst :
       /\ Len(appended[i]) = 2
       /\ \A k \in DOMAIN appended[i] :
            appended[i][k] # <<>> /\ ~EndsWithNL(appended[i][k])
       /\ Delivered(i)

\* ---- C11 ----

\* a thread that has left the locked part of a call holds no lock
C11_LockReleased ==
  \A t \in Threads :
    pc[t] \in {"idle", "w_acq", "w_branch", "s_acq", "s_log", "s_inlog", "ret"}
      => \A i \in Inst : lock[i] # t

\* while a call is in progress or a pushed call is waiting, some thread can
\* take a step
C11_NoDeadlock ==
  ((\E t \in Threads : pc[t] # "idle") \/ queue # <<>>)
    => \E t \in Threads : ENABLED Step(t)

\* some write, _shiplog or pushed call has started and not come to its end
C11_Busy == (\E t \in Threads : pc[t] # "idle") \/ queue # <<>>

\* C11: every started write and every started _shiplog comes to its end
\* (a state with none of them unfinished comes back), the lock is free again
\* after every path through _shiplog (the early return included), and no
\* state is reached in which the started calls are all stuck.
C11_NoBlocking ==
  /\ C11_Busy ~> ~C11_Busy
  /\ [](C11_LockReleased /\ C11_NoDeadlock)

C11_Witness ==
  \E t, u \in Threads :
    /\ t # u
    /\ pc[u] = "ret" /\ shipres[u] = "noop" /\ op[u] = "call"
    /\ linebits[self[u]] # <<>>
    /\ lock[self[u]] = t
    /\ pc[t] = "s_drain"

\* ---- C12 ----

\* C12 as stated: whenever a _shiplog leaves the locked part, the buffer of
\* its instance holds no fragment.
C12_ShipEmptiesBuffer ==
  [][\A t \in Threads :
       (pc[t] = "s_drain" /\ pc'[t] # "s_drain")
         => linebits'[self[t]] = <<>>]_vars

\* ---- C13 ----

\* the writes that entered the lock and made their append, in entering order
AcquiredDone(i) ==
  IF \E t \in Threads : pc[t] = "w_append" /\ self[t] = i
    THEN ButLast(acquired[i])
    ELSE acquired[i]

\* l is the end of a
IsSuffix(l, a) ==
  Len(l) <= Len(a) /\ SubSeq(a, Len(a) - Len(l) + 1, Len(a)) = l

\* f stands in a as one unbroken stretch
IsRun(f, a) ==
  \E k \in 1..(Len(a) + 1) :
    k + Len(f) - 1 <= Len(a) /\ SubSeq(a, k, k + Len(f) - 1) = f

\* C13: the fragments in the buffer stand in the order in which their writes
\* entered the lock, and a record's text is the concatenation, in that order,
\* of the fragments its _shiplog found in the buffer (less the final newline).
C13_LockOrder ==
  \A i \in Inst :
    /\ IsSuffix(linebits[i], AcquiredDone(i))
    /\ \A k \in DOMAIN RecordsOf(i) :
         LET r == RecordsOf(i)[k] IN
           /\ IsRun(r.frags, acquired[i])
           /\ Join(r.frags) \in {r.args.line, r.args.line \o <<NL>>}

C13_Witness ==
  \E i \in Inst :
    /\ Len(RecordsOf(i)) = 1
    /\ RecordsOf(i)[1].frags = << <<"a">>, <<"a", NL>> >>
    /\ acquired[i] = << <<"a">>, <<"a", NL>> >>
    /\ RecordsOf(i)[1].args.line = <<"a", "a">>

\* ---- C14 ----

\* s ends with a newline that no other newline stands before
EndsWithOneNL(s) == EndsWithNL(s) /\ ~EndsWithNL(ButLast(s))

\* C14 as stated: the record is the joined text without its last character
\* if that text ends with exactly one newline, and the joined text unchanged
\* otherwise (also when it ends with two newlines).
C14_StripsOnlySingle ==
  \A k \in DOMAIN log :
    LET j == Join(log[k].frags) IN
      log[k].args.line = IF EndsWithOneNL(j) THEN ButLast(j) ELSE j

\* ---- C15 ----

\* C15 as stated: no record passed to the log holds a newline character,
\* whatever was written, texts of several lines included.
C15_NewlineFree ==
  \A k \in DOMAIN log :
    \A n \in DOMAIN log[k].args.line : log[k].args.line[n] # NL

\* ---- C16 ----

\* a call of instance i's _shiplog waits in the game thread's queue
Scheduled(i) == \E k \in DOMAIN queue : queue[k].call = i

\* C16 as stated: once the first write to an instance has appended a partial
\* text and returned, and nothing was written or shipped since, no call of
\* _shiplog is scheduled for the instance.
C16_FirstPartialNoShip ==
  \A i \in Inst :
    ( /\ Len(appended[i]) = 1
      /\ ~EndsWithNL(appended[i][1])
      /\ linebits[i] = appended[i]
      /\ \A t \in Threads : pc[t] = "idle" )
      => ~Scheduled(i)

\* C16 amended: there is no state in which text waits in the buffer with no
\* ship to come. Whenever the buffer of an instance holds text, a call of
\* _shiplog is scheduled for the instance, or a thread is in a write of the
\* instance between its append and its ship or push, or in a ship of the
\* instance that has not drained yet. The first partial write schedules the
\* ship itself.
C16_TextHasShip ==
  \A i \in Inst :
    Join(linebits[i]) # <<>>
      => \/ Scheduled(i)
         \/ \E t \in Threads :
              self[t] = i /\ pc[t] \in {"w_branch", "s_acq", "s_drain"}

C16_Witness ==
  \E i \in Inst :
    /\ appended[i] = << <<"a">> >>
    /\ linebits[i] = appended[i]
    /\ \A t \in Threads : pc[t] = "idle"
    /\ Scheduled(i)

\* ---- C17 ----

\* C17: in every state the fragment lists taken by the drains of an
\* instance, in drain order, followed by the fragments still in its buffer,
\* are the appended fragments in append order: every appended fragment
\* (empty ones too) is in the buffer or in exactly one drain, whole. Every
\* record and every ship between its drain and its log call holds the list
\* of exactly one drain, and no two of them hold the same drain.
C17_NothingLostOrDuplicated ==
  /\ \A i \in Inst : Join(drains[i]) \o linebits[i] = appended[i]
  /\ \A k \in DOMAIN log :
       /\ log[k].n \in DOMAIN drains[log[k].src]
       /\ drains[log[k].src][log[k].n] = log[k].frags
  /\ \A k, m \in DOMAIN log :
       (log[k].src = log[m].src /\ log[k].n = log[m].n) => k = m
  /\ \A t \in Threads :
       pc[t] = "s_log"
         => /\ dn[t] \in DOMAIN drains[self[t]]
            /\ drains[self[t]][dn[t]] = frags[t]
            /\ \A k \in DOMAIN log :
                 ~(log[k].src = self[t] /\ log[k].n = dn[t])

C17_Witness ==
  \E i \in Inst :
    /\ Len(drains[i]) = 1
    /\ Len(appended[i]) = 2
    /\ linebits[i] = <<appended[i][2]>>
    /\ \E t \in Threads : pc[t] = "s_log" /\ self[t] = i /\ op[t] = "call"

\* ---- C18 ----

\* C18 as stated: the records of one instance are passed to the log in the
\* order in which their texts were drained from the buffer: of two records
\* of the same instance, the one logged first was drained first.
C18_LoggedInDrainOrder ==
  \A k, m \in DOMAIN log :
    (k < m /\ log[k].src = log[m].src) => log[k].n < log[m].n
====
